---------------------------- MODULE Spec2Model ----------------------------
(***************************************************************************)
(* A model of apollo-upload-client: the three link constructors            *)
(*   jsonUploadLink, multipartUploadLink  (src/src/index.mjs)              *)
(*   createUploadLink                     (src/unnamed/part_000)           *)
(* and the life of a request made through them: the subscriber function    *)
(* builds the request and calls fetch, the promise chain attaches the      *)
(* response to the context, reads and classifies the body and calls the    *)
(* observer, and the cleanup function aborts the fetch.                    *)
(*                                                                         *)
(* JS values are modelled as follows.  An object is a function from its    *)
(* own keys (strings) to values; {...a, ...b} is Spread(a, b).  undefined  *)
(* is the value Undefined; an optional field of an error is a set holding  *)
(* no or one value.  A variables tree is the sequence of its leaves in     *)
(* traversal order, each with its dotted path.                             *)
(***************************************************************************)
EXTENDS Integers, Sequences, FiniteSets, TLC

VARIABLES
    link,             \* the options the link was constructed with, and its variant
    AbortController,  \* whether the environment defines AbortController
    engine,           \* how the environment's JavaScript engine words its errors
    pc,               \* per request: where its promise chain stands (see Done)
    sub,              \* per request: the operation and context it was subscribed with
    fetchCalls,       \* per request: the calls made to fetch, [uri, options]
    aborted,          \* per request: controller.abort() has been called
    cancelled,        \* per request: the phase in which the subscriber unsubscribed, or "no"
    response,         \* per request: the response fetch resolved with
    contextResponse,  \* per request: the calls of setContext({ response }), each with
                      \*   the number of observer calls made before it
    settled,          \* per request: what the promise the chain's next callback
                      \*   waits on has settled with
    log               \* per request: the calls of the observer made by the link's
                      \*   chain, or by the Observable when the subscriber
                      \*   function throws, in order

vars == << link, AbortController, engine, pc, sub, fetchCalls, aborted, cancelled,
           response, contextResponse, settled, log >>

-----------------------------------------------------------------------------
(* Bounds *)

\* The number of requests made through the link one after the other.
NumRequests == 1

\* The number of requests in flight through the link at once.
NumConcurrent == 2

\* The requests the state keeps; a specification makes the first few of them.
Requests == 1..(IF NumRequests > NumConcurrent THEN NumRequests ELSE NumConcurrent)

-----------------------------------------------------------------------------
(* JS values *)

Undefined == "<undefined>"

EmptyMap == [k \in {} |-> Undefined]

\* if (x): undefined and '' are falsy, every other string is truthy.
Truthy(x) == x # Undefined /\ x # ""

\* { ...a, ...b }: own keys of both, b's value on a key of both.
Spread(a, b) == b @@ a

\* obj[key] = value
Assign(obj, key, value) == (key :> value) @@ obj

\* String(v): `${v}` and FormData's conversion of a non-Blob value.
String(v) == IF v = Undefined THEN "undefined" ELSE v

-----------------------------------------------------------------------------
(* Operations, variables and files *)

\* print(query): the canonical text of a parsed document.
print(query) == "query " \o query \o " { field }"

Scalar(json) == [t |-> "scalar", v |-> json]
File(name)   == [t |-> "file", v |-> name]
BigInt(n)    == [t |-> "bigint", v |-> n]
Leaf(path, leaf) == [path |-> path, leaf |-> leaf]

\* Object.keys(variables).length
HasKeys(variables) == Len(variables) > 0

\* treePath of a leaf below prefix, as extract-files joins it.
JoinPath(prefix, path) == IF prefix = "" THEN path ELSE prefix \o "." \o path

\* extractFiles(tree, treePath): the file leaves of the tree in traversal
\* order, each as { path, file }.
extractFiles(tree, prefix) ==
    LET files == SelectSeq(tree, LAMBDA e : e.leaf.t = "file")
    IN  [i \in 1..Len(files) |->
            [path |-> JoinPath(prefix, files[i].path), file |-> files[i].leaf.v]]

\* A JSON.stringify whose exception is swallowed: nothing is unserializable.
SerializableAlways(variables) == TRUE

\* JSON.stringify(variables) throws on a BigInt leaf.
Serializable(variables) ==
    \A i \in 1..Len(variables) : variables[i].leaf.t # "bigint"

\* JSON.stringify(variables) after extraction: every leaf by its path, a
\* scalar as its JSON text and an extracted file as null.
StringifyVariables(variables) ==
    [i \in 1..Len(variables) |->
        [path |-> variables[i].path,
         json |-> IF variables[i].leaf.t = "file" THEN "null"
                  ELSE variables[i].leaf.v]]

\* files.reduce((map, { path }, index) => { map[`${index}`] = [path] ... }, {})
RECURSIVE FilesMap(_, _)
FilesMap(files, n) ==
    IF n = 0 THEN EmptyMap
    ELSE Assign(FilesMap(files, n - 1), ToString(n - 1), << files[n].path >>)

\* A FormData entry: body.append(name, value) and body.append(name, file, filename).
TextPart(name, value) ==
    [name |-> name, kind |-> "text", value |-> value, filename |-> Undefined]
JsonPart(name, json) ==
    [name |-> name, kind |-> "json", value |-> json, filename |-> Undefined]
FilePart(name, file) ==
    [name |-> name, kind |-> "file", value |-> file, filename |-> file]

\* files.forEach(({ file }, index) => body.append(index, file, file.name))
IndexedFileParts(files) ==
    [i \in 1..Len(files) |-> FilePart(ToString(i - 1), files[i].file)]

\* files.forEach(({ file }) => body.append('file', file, file.name))
NamedFileParts(files) ==
    [i \in 1..Len(files) |-> FilePart("file", files[i].file)]

-----------------------------------------------------------------------------
(* Errors *)

\* new Error(message) and the properties the code attaches to it; each
\* optional property is a set holding no or one value.
PlainError(name, message) ==
    [name |-> name, message |-> message, response |-> {}, statusCode |-> {},
     result |-> {}, bodyText |-> {}, parseError |-> {}]

NoError == PlainError(Undefined, Undefined)

\* What JSON.stringify throws on a BigInt.
StringifyError == PlainError("TypeError", "Do not know how to serialize a BigInt")

\* What the subscriber function did: it threw, or it called fetch.
Threw(error) == [threw |-> TRUE, error |-> error, uri |-> Undefined,
                 options |-> EmptyMap, controller |-> FALSE]
Fetched(uri, options, controller) ==
    [threw |-> FALSE, error |-> NoError, uri |-> uri,
     options |-> options, controller |-> controller]

-----------------------------------------------------------------------------
(* Building the request *)

\* obj.headers, spread: the headers of a fetchOptions object, none when absent.
HeadersOf(obj) == IF "headers" \in DOMAIN obj THEN obj.headers ELSE EmptyMap

JsonBody(json)     == [kind |-> "json", json |-> json, parts |-> << >>]
FormDataBody(parts) == [kind |-> "formdata", json |-> EmptyMap, parts |-> parts]

\* JSON.stringify(requestOperation): the record with its variables serialized.
StringifyOperation(requestOperation) ==
    [k \in DOMAIN requestOperation |->
        IF k = "variables" THEN StringifyVariables(requestOperation[k])
        ELSE requestOperation[k]]

\* The subscriber function of jsonUploadLink up to its call of fetch.
jsonUploadLink(l, operation, context) ==
    LET query == [query |-> print(operation.query)]
        named == IF Truthy(operation.operationName)
                 THEN Assign(query, "operationName", operation.operationName)
                 ELSE query
        withVariables == IF HasKeys(operation.variables)
                         THEN Assign(named, "variables", operation.variables)
                         ELSE named
        requestOperation ==
            IF Truthy(operation.extensions) /\ l.includeExtensions
            THEN Assign(withVariables, "extensions", operation.extensions)
            ELSE withVariables
        files == IF "variables" \in DOMAIN requestOperation
                 THEN extractFiles(requestOperation.variables, "variables")
                 ELSE << >>
        linkUri == IF l.uri = Undefined THEN "/graphql" ELSE l.uri
        uri == IF context.uri = Undefined THEN linkUri ELSE context.uri
        credentials == IF context.credentials = Undefined THEN l.credentials
                       ELSE context.credentials
        headers == Spread(Spread(Spread(HeadersOf(l.fetchOptions),
                                        HeadersOf(context.fetchOptions)),
                                 l.headers),
                          context.headers)
        fetchOptions ==
            Spread(Spread(l.fetchOptions, context.fetchOptions),
                   [headers |-> headers, method |-> "POST"])
        withCredentials == IF Truthy(credentials)
                           THEN Assign(fetchOptions, "credentials", credentials)
                           ELSE fetchOptions
        serializable == \/ "variables" \notin DOMAIN requestOperation
                        \/ Serializable(requestOperation.variables)
        multipart ==
            FormDataBody(<< JsonPart("operations", StringifyOperation(requestOperation)),
                            JsonPart("map", FilesMap(files, Len(files))) >>
                         \o IndexedFileParts(files))
    IN  IF ~serializable THEN Threw(StringifyError)
        ELSE IF Len(files) > 0
        THEN Fetched(uri, Assign(withCredentials, "body", multipart), FALSE)
        ELSE Fetched(uri,
                     Assign(Assign(withCredentials, "headers",
                                   Assign(headers, "content-type", "application/json")),
                            "body", JsonBody(StringifyOperation(requestOperation))),
                     FALSE)

defaultHttpOptions == [includeQuery |-> TRUE, includeExtensions |-> FALSE]

\* const { controller, signal } = createSignalIfSupported()
createSignalIfSupported(supported) == supported

\* String(extensions), as FormData stores a value that is an object.
ObjectString(v) == IF v = Undefined THEN "undefined" ELSE "[object Object]"

\* The error thrown when JSON.stringify(variables) throws.
PayloadError ==
    [PlainError("Error",
                "Network request failed. Payload is not serializable: "
                    \o StringifyError.message)
        EXCEPT !.parseError = {StringifyError.message}]

\* The fields appended after the files: operationName, variables, and the
\* extensions and query the options ask for.
operationParts(l, operation, http) ==
    << TextPart("operationName", String(operation.operationName)),
       JsonPart("variables", StringifyVariables(operation.variables)) >>
    \o (IF l.includeExtensions \/ http.includeExtensions
        THEN << TextPart("extensions", ObjectString(operation.extensions)) >>
        ELSE << >>)
    \o (IF http.includeQuery
        THEN << TextPart("query", print(operation.query)) >>
        ELSE << >>)

\* fetcherOptions: the options passed to fetch, from the link's and the
\* context's options, the headers the link starts from and the body.
fetcherOptions(l, context, headers, body, controller) ==
    LET options == Spread(l.fetchOptions, context.fetchOptions)
        base == Spread(Spread([method |-> "POST"], options),
                       [headers |-> headers, body |-> body])
        linkCredentials == IF Truthy(l.credentials)
                           THEN Assign(base, "credentials", l.credentials)
                           ELSE base
        withCredentials == IF Truthy(context.credentials)
                           THEN Assign(linkCredentials, "credentials", context.credentials)
                           ELSE linkCredentials
        merged == Spread(Spread(headers, l.headers), context.headers)
        withHeaders == Assign(withCredentials, "headers", merged)
    IN  IF controller THEN Assign(withHeaders, "signal", "signal") ELSE withHeaders

\* The subscriber function of multipartUploadLink up to its call of fetch.
multipartUploadLink(l, operation, context, supported) ==
    LET http == Spread(defaultHttpOptions, context.http)
        files == extractFiles(operation.variables, "")
        body == FormDataBody(<< JsonPart("files", FilesMap(files, Len(files))) >>
                             \o IndexedFileParts(files)
                             \o operationParts(l, operation, http))
        controller == createSignalIfSupported(supported)
        uri == IF ~Truthy(l.uri) THEN "/graphql" ELSE l.uri
    IN  IF ~Serializable(operation.variables) THEN Threw(PayloadError)
        ELSE Fetched(IF Truthy(context.uri) THEN context.uri ELSE uri,
                     fetcherOptions(l, context,
                                    Assign([accept |-> "*/*"], "content-type",
                                           "multipart/form-data"),
                                    body, controller),
                     controller)

\* The subscriber function of createUploadLink (part_000) up to its call of
\* fetch.
createUploadLinkPart000(l, operation, context, supported) ==
    LET http == Spread(defaultHttpOptions, context.http)
        files == extractFiles(operation.variables, "")
        body == FormDataBody(NamedFileParts(files)
                             \o operationParts(l, operation, http))
        controller == createSignalIfSupported(supported)
        uri == IF ~Truthy(l.uri) THEN "/graphql" ELSE l.uri
    IN  IF ~Serializable(operation.variables) THEN Threw(PayloadError)
        ELSE Fetched(IF Truthy(context.uri) THEN context.uri ELSE uri,
                     fetcherOptions(l, context, [accept |-> "*/*"], body, controller),
                     controller)

\* createUploadLink({ multipart, ...props }) of index.mjs: the variant it returns.
createUploadLink(multipart) == IF multipart THEN "multipart" ELSE "json"

\* The request a link of the given variant makes for an operation.
BuildRequest(l, operation, context, supported) ==
    CASE l.variant = "json"      -> jsonUploadLink(l, operation, context)
      [] l.variant = "multipart" -> multipartUploadLink(l, operation, context, supported)
      [] l.variant = "part000"   -> createUploadLinkPart000(l, operation, context, supported)

-----------------------------------------------------------------------------
(* Responses *)

\* A response as fetch resolves with it: ok is true exactly for 200..299.
Response(status, statusText, bodyText) ==
    [status |-> status, ok |-> (status >= 200 /\ status <= 299),
     statusText |-> statusText, bodyText |-> bodyText]

\* A parsed JSON value: an object by its own keys, or null.
JsonObject(o) == [t |-> "object", o |-> o]
JsonNull      == [t |-> "null", o |-> EmptyMap]

\* JSON.parse(bodyText) for the body texts of the model; no value when it throws.
JSONparse(bodyText) ==
    CASE bodyText = "{\"data\":{\"a\":1}}"  -> {JsonObject([data |-> "{\"a\":1}"])}
      [] bodyText = "{\"errors\":[\"e\"]}"  -> {JsonObject([errors |-> "[\"e\"]"])}
      [] bodyText = "{\"foo\":1}"           -> {JsonObject([foo |-> "1"])}
      [] bodyText = "null"                  -> {JsonNull}
      [] OTHER                              -> {}

\* The text of an error the engine throws is the engine's own: the wordings
\* of V8 before and from Node 20.
Engines == {"V8 before Node 20", "V8 of Node 20"}

\* What JSON.parse and response.json() throw on a text that is no JSON.
SyntaxError(bodyText, v8) ==
    PlainError("SyntaxError",
               IF bodyText = "" THEN "Unexpected end of JSON input"
               ELSE IF v8 = "V8 before Node 20"
               THEN "Unexpected token < in JSON at position 0"
               ELSE "Unexpected token '<', \"" \o bodyText \o "\" is not valid JSON")

\* What reading a property of null throws.
NullPropertyError(property, v8) ==
    PlainError("TypeError",
               IF v8 = "V8 before Node 20"
               THEN "Cannot read property '" \o property \o "' of null"
               ELSE "Cannot read properties of null (reading '" \o property \o "')")

\* result.hasOwnProperty(key); never applied to null.
hasOwnProperty(result, key) == key \in DOMAIN result.o

\* A promise's outcome: resolved with a value or rejected with an error.
Resolved(value) == [ok |-> TRUE, value |-> value, error |-> NoError]
Rejected(error) == [ok |-> FALSE, value |-> JsonNull, error |-> error]

\* throwServerError(response, result, message)
throwServerError(resp, result, message) ==
    Rejected([PlainError("Error", message)
                EXCEPT !.response = {resp}, !.statusCode = {resp.status},
                       !.result = {result}])

\* parseAndCheckResponse(request)(response), once response.text() has
\* resolved with the response's body text.
parseAndCheckResponse(request, resp, v8) ==
    LET parsed == JSONparse(resp.bodyText)
        result == CHOOSE v \in parsed : TRUE
    IN  IF parsed = {}
        THEN Rejected([SyntaxError(resp.bodyText, v8)
                         EXCEPT !.response = {resp}, !.statusCode = {resp.status},
                                !.bodyText = {resp.bodyText}])
        ELSE IF resp.status >= 300
        THEN throwServerError(resp, result,
                 "Response not successful: Received status code "
                     \o ToString(resp.status))
        ELSE IF result = JsonNull
        THEN Rejected(NullPropertyError("hasOwnProperty", v8))
        ELSE IF ~hasOwnProperty(result, "data") /\ ~hasOwnProperty(result, "errors")
        THEN throwServerError(resp, result,
                 "Server response was missing for query '"
                     \o String(request.operationName) \o "'.")
        ELSE Resolved(result)

\* response.json(), once the body has been read.
responseJson(resp, v8) ==
    LET parsed == JSONparse(resp.bodyText)
    IN  IF parsed = {} THEN Rejected(SyntaxError(resp.bodyText, v8))
        ELSE Resolved(CHOOSE v \in parsed : TRUE)

-----------------------------------------------------------------------------
(* The observer *)

NextEvent(value) == [type |-> "next", value |-> value, error |-> NoError]
CompleteEvent    == [type |-> "complete", value |-> JsonNull, error |-> NoError]
ErrorEvent(e)    == [type |-> "error", value |-> JsonNull, error |-> e]

\* What an observer callback throws, when it throws.
ObserverError == PlainError("Error", "observer callback threw")

\* .catch(error => observer.error(error)) of jsonUploadLink
jsonCatch(err) == << ErrorEvent(err) >>

\* .catch(err => { if (err.name === 'AbortError') return; observer.error(err) })
uploadCatch(err) == IF err.name = "AbortError" THEN << >> ELSE << ErrorEvent(err) >>

catch(variant, err) == IF variant = "json" THEN jsonCatch(err) ELSE uploadCatch(err)

-----------------------------------------------------------------------------
(* The errors fetch and body reading reject with *)

\* The DOMException of an aborted fetch, and of any fetch that gives up on
\* its own under that name.
AbortError == PlainError("AbortError", "The user aborted a request.")

\* The TypeError of a failed network request.
NetworkFailure == PlainError("TypeError", "Failed to fetch")

\* The TypeError of reading a body that can no longer be read.
BodyUnusable == PlainError("TypeError", "Body is unusable: Body has already been read")

\* What the promise of fetch, and of response.text() or response.json(),
\* may reject with.  The link never looks at its signal: what a promise
\* settles with is the fetch implementation's choice, before or after an
\* abort.
FetchRejections == {AbortError, NetworkFailure}
BodyRejections  == {AbortError, BodyUnusable}

-----------------------------------------------------------------------------
(* The life of a request *)

\* Where a request's promise chain can end: the subscriber function threw
\* before calling fetch, fetch rejected, reading the body rejected, or the
\* chain ran on the response to its end.
Done(r) == pc[r] \in {"threw", "fetchRejected", "readRejected", "classified"}

\* A request's subscription is open from the subscribe on until the link
\* calls observer.complete or observer.error, or the subscriber unsubscribes.
\* An Observable runs the cleanup function when the subscription closes.
Open(r) ==
    /\ pc[r] # "idle"
    /\ cancelled[r] = "no"
    /\ \A i \in DOMAIN log[r] : log[r][i].type \notin {"complete", "error"}

\* The cleanup function the subscriber function returned:
\*   () => { if (controller) controller.abort() }
\* jsonUploadLink returns none.  Gives whether abort() has been called.
cleanup(variant, supported, wasAborted) ==
    wasAborted \/ (variant # "json" /\ createSignalIfSupported(supported))

\* The observable's subscriber function runs: it builds the request and
\* calls fetch.  What it throws, the Observable passes to observer.error.
Subscribe(r, operation, context) ==
    /\ pc[r] = "idle"
    /\ LET built == BuildRequest(link, operation, context, AbortController)
       IN  /\ sub' = [sub EXCEPT ![r] = << [operation |-> operation, context |-> context] >>]
           /\ IF built.threw
              THEN /\ pc' = [pc EXCEPT ![r] = "threw"]
                   /\ log' = [log EXCEPT ![r] = << ErrorEvent(built.error) >>]
                   /\ UNCHANGED fetchCalls
              ELSE /\ pc' = [pc EXCEPT ![r] = "fetching"]
                   /\ fetchCalls' = [fetchCalls EXCEPT ![r] =
                          Append(@, [uri |-> built.uri, options |-> built.options])]
                   /\ UNCHANGED log
    /\ UNCHANGED << link, AbortController, engine, aborted, cancelled, response,
                    contextResponse, settled >>

\* The promise of fetch resolves with a response; the chain's first
\* callback is yet to run.
FetchResolve(r, resp) ==
    /\ pc[r] = "fetching"
    /\ pc' = [pc EXCEPT ![r] = "fetchResolved"]
    /\ response' = [response EXCEPT ![r] = << resp >>]
    /\ UNCHANGED << link, AbortController, engine, sub, fetchCalls, aborted, cancelled,
                    contextResponse, settled, log >>

\* FetchReject with one retry: a failed first fetch is made again with the
\* same arguments instead of being reported.
FetchRejectRetry(r, err) ==
    /\ pc[r] = "fetching"
    /\ err \in FetchRejections
    /\ IF err # AbortError /\ Len(fetchCalls[r]) = 1
       THEN /\ fetchCalls' = [fetchCalls EXCEPT ![r] = Append(@, @[1])]
            /\ UNCHANGED << pc, settled >>
       ELSE /\ pc' = [pc EXCEPT ![r] = "fetchRejecting"]
            /\ settled' = [settled EXCEPT ![r] = << Rejected(err) >>]
            /\ UNCHANGED fetchCalls
    /\ UNCHANGED << link, AbortController, engine, sub, aborted, cancelled,
                    response, contextResponse, log >>

\* The promise of fetch rejects; the rejection is yet to reach .catch.
FetchReject(r, err) ==
    /\ pc[r] = "fetching"
    /\ err \in FetchRejections
    /\ pc' = [pc EXCEPT ![r] = "fetchRejecting"]
    /\ settled' = [settled EXCEPT ![r] = << Rejected(err) >>]
    /\ UNCHANGED << link, AbortController, engine, sub, fetchCalls, aborted, cancelled,
                    response, contextResponse, log >>

\* SetContext with the response attached to the context only after the
\* check of response.ok, so not for a response jsonUploadLink throws on.
SetContextOkOnly(r) ==
    /\ pc[r] = "fetchResolved"
    /\ IF link.variant = "json" /\ ~response[r][1].ok
       THEN /\ pc' = [pc EXCEPT ![r] = "rejecting"]
            /\ settled' = [settled EXCEPT ![r] =
                   << Rejected(PlainError("Error",
                          ToString(response[r][1].status) \o " ("
                              \o response[r][1].statusText \o ")")) >>]
            /\ UNCHANGED contextResponse
       ELSE /\ pc' = [pc EXCEPT ![r] =
                   IF link.variant = "json" THEN "reading" ELSE "contextSet"]
            /\ contextResponse' = [contextResponse EXCEPT ![r] =
                   Append(@, [response |-> response[r][1],
                              observerCalls |-> Len(log[r])])]
            /\ UNCHANGED settled
    /\ UNCHANGED << link, AbortController, engine, sub, fetchCalls, aborted, cancelled,
                    response, log >>

\* The chain's first callback runs on the response: it is attached to the
\* context; then jsonUploadLink throws on a response that is not ok and
\* starts reading the body of one that is, and the other links return the
\* response to the chain's next callback.
SetContext(r) ==
    /\ pc[r] = "fetchResolved"
    /\ contextResponse' = [contextResponse EXCEPT ![r] =
           Append(@, [response |-> response[r][1], observerCalls |-> Len(log[r])])]
    /\ IF link.variant = "json" /\ ~response[r][1].ok
       THEN /\ pc' = [pc EXCEPT ![r] = "rejecting"]
            /\ settled' = [settled EXCEPT ![r] =
                   << Rejected(PlainError("Error",
                          ToString(response[r][1].status) \o " ("
                              \o response[r][1].statusText \o ")")) >>]
       ELSE /\ pc' = [pc EXCEPT ![r] =
                   IF link.variant = "json" THEN "reading" ELSE "contextSet"]
            /\ UNCHANGED settled
    /\ UNCHANGED << link, AbortController, engine, sub, fetchCalls, aborted, cancelled,
                    response, log >>

\* The chain's second callback, parseAndCheckResponse(operation), runs on
\* the response and calls response.text().
ReadText(r) ==
    /\ pc[r] = "contextSet"
    /\ pc' = [pc EXCEPT ![r] = "reading"]
    /\ UNCHANGED << link, AbortController, engine, sub, fetchCalls, aborted, cancelled,
                    response, contextResponse, settled, log >>

\* The body has been read.  response.json() of jsonUploadLink settles with
\* the parsed body or a SyntaxError; in the other links the first callback
\* of parseAndCheckResponse parses the text, and its second is yet to run.
BodyRead(r) ==
    /\ pc[r] = "reading"
    /\ LET resp == response[r][1]
           outcome ==
               IF link.variant = "json" THEN responseJson(resp, engine)
               ELSE IF JSONparse(resp.bodyText) = {}
               THEN parseAndCheckResponse(sub[r][1].operation, resp, engine)
               ELSE Resolved(CHOOSE v \in JSONparse(resp.bodyText) : TRUE)
       IN  /\ settled' = [settled EXCEPT ![r] = << outcome >>]
           /\ pc' = [pc EXCEPT ![r] =
                  IF ~outcome.ok THEN "rejecting"
                  ELSE IF link.variant = "json" THEN "delivering"
                  ELSE "checking"]
    /\ UNCHANGED << link, AbortController, engine, sub, fetchCalls, aborted, cancelled,
                    response, contextResponse, log >>

\* Reading the body rejects; the rejection is yet to reach .catch.
BodyReject(r, err) ==
    /\ pc[r] = "reading"
    /\ err \in BodyRejections
    /\ pc' = [pc EXCEPT ![r] = "readRejecting"]
    /\ settled' = [settled EXCEPT ![r] = << Rejected(err) >>]
    /\ UNCHANGED << link, AbortController, engine, sub, fetchCalls, aborted, cancelled,
                    response, contextResponse, log >>

\* The second callback of parseAndCheckResponse checks the status and the
\* parsed body.
CheckResponse(r) ==
    /\ pc[r] = "checking"
    /\ LET outcome == parseAndCheckResponse(sub[r][1].operation, response[r][1], engine)
       IN  /\ settled' = [settled EXCEPT ![r] = << outcome >>]
           /\ pc' = [pc EXCEPT ![r] = IF outcome.ok THEN "delivering" ELSE "rejecting"]
    /\ UNCHANGED << link, AbortController, engine, sub, fetchCalls, aborted, cancelled,
                    response, contextResponse, log >>

\* .then(result => { observer.next(result); observer.complete() })
\* nextThrows and completeThrows say whether the observer's callbacks
\* throw; what they throw is yet to reach .catch.  observer.complete closes
\* the subscription.
Deliver(r, nextThrows, completeThrows) ==
    /\ pc[r] = "delivering"
    /\ LET result == settled[r][1].value
       IN  IF nextThrows
           THEN /\ log' = [log EXCEPT ![r] = @ \o << NextEvent(result) >>]
                /\ settled' = [settled EXCEPT ![r] = << Rejected(ObserverError) >>]
                /\ pc' = [pc EXCEPT ![r] = "rejecting"]
                /\ UNCHANGED aborted
           ELSE /\ log' = [log EXCEPT ![r] = @ \o << NextEvent(result), CompleteEvent >>]
                /\ aborted' = [aborted EXCEPT ![r] =
                       cleanup(link.variant, AbortController, @)]
                /\ IF completeThrows
                   THEN /\ settled' = [settled EXCEPT ![r] = << Rejected(ObserverError) >>]
                        /\ pc' = [pc EXCEPT ![r] = "rejecting"]
                   ELSE /\ pc' = [pc EXCEPT ![r] = "classified"]
                        /\ UNCHANGED settled
    /\ UNCHANGED << link, AbortController, engine, sub, fetchCalls, cancelled,
                    response, contextResponse >>

\* The .catch callback runs on the rejection that reached it.
\* observer.error closes the subscription.
Catch(r) ==
    /\ pc[r] \in {"fetchRejecting", "readRejecting", "rejecting"}
    /\ log' = [log EXCEPT ![r] = @ \o catch(link.variant, settled[r][1].error)]
    /\ aborted' = [aborted EXCEPT ![r] =
           IF catch(link.variant, settled[r][1].error) # << >>
           THEN cleanup(link.variant, AbortController, @) ELSE @]
    /\ pc' = [pc EXCEPT ![r] =
           CASE pc[r] = "fetchRejecting" -> "fetchRejected"
             [] pc[r] = "readRejecting"  -> "readRejected"
             [] pc[r] = "rejecting"      -> "classified"]
    /\ UNCHANGED << link, AbortController, engine, sub, fetchCalls, cancelled,
                    response, contextResponse, settled >>

\* Cancel with one controller shared by the link's requests: aborting it
\* aborts every request of the link.
CancelShared(r) ==
    /\ Open(r)
    /\ cancelled' = [cancelled EXCEPT ![r] = pc[r]]
    /\ aborted' = [q \in Requests |-> cleanup(link.variant, AbortController, aborted[q])]
    /\ UNCHANGED << link, AbortController, engine, pc, sub, fetchCalls, response,
                    contextResponse, settled, log >>

\* The subscriber unsubscribes from a subscription still open, between any
\* two callbacks of the chain or after a chain that ended with no observer
\* call: the cleanup function runs.
Cancel(r) ==
    /\ Open(r)
    /\ cancelled' = [cancelled EXCEPT ![r] = pc[r]]
    /\ aborted' = [aborted EXCEPT ![r] = cleanup(link.variant, AbortController, @)]
    /\ UNCHANGED << link, AbortController, engine, pc, sub, fetchCalls, response,
                    contextResponse, settled, log >>

-----------------------------------------------------------------------------
(* Inputs *)

Variants == {"json", "multipart", "part000"}

NoVariables     == << >>
ScalarVariables == << Leaf("x", Scalar("1")) >>
OneFile         == << Leaf("file", File("a.txt")) >>
NestedFiles     == << Leaf("x", Scalar("1")),
                      Leaf("files.0", File("a.txt")),
                      Leaf("files.1", File("b.txt")) >>
Unserializable  == << Leaf("n", BigInt("10n")) >>

Operations ==
    [operationName : {Undefined, "Q"},
     query : {"Q"},
     variables : {NoVariables, ScalarVariables, OneFile, NestedFiles, Unserializable},
     extensions : {Undefined, "persistedQuery"}]

Contexts ==
    [uri : {Undefined, "/context"},
     credentials : {Undefined, "include"},
     headers : {EmptyMap, [a |-> "2", b |-> "3"], "A" :> "2"},
     fetchOptions : {EmptyMap, [method |-> "GET", headers |-> [x |-> "9"]]},
     http : {EmptyMap, [includeQuery |-> FALSE, includeExtensions |-> TRUE]}]

Links ==
    [variant : Variants,
     uri : {Undefined, "/api"},
     credentials : {Undefined, "same-origin"},
     headers : {EmptyMap, [a |-> "1"]},
     fetchOptions : {EmptyMap, [method |-> "PUT", mode |-> "cors", credentials |-> "omit"]},
     includeExtensions : BOOLEAN]

\* A link constructed with no options, and a request made with an empty context.
DefaultLinks ==
    {l \in Links : /\ l.uri = Undefined /\ l.credentials = Undefined
                   /\ l.headers = EmptyMap /\ l.fetchOptions = EmptyMap
                   /\ ~l.includeExtensions}
DefaultContexts ==
    {c \in Contexts : /\ c.uri = Undefined /\ c.credentials = Undefined
                      /\ c.headers = EmptyMap /\ c.fetchOptions = EmptyMap
                      /\ c.http = EmptyMap}
NamedOperations ==
    {o \in Operations : /\ o.operationName = "Q" /\ o.extensions = Undefined
                        /\ o.variables \in {ScalarVariables, OneFile, Unserializable}}

\* A link constructed with every option, and a context that sets its own.
OptionedLinks ==
    {l \in Links : /\ l.uri = "/api" /\ l.credentials = "same-origin"
                   /\ l.headers # EmptyMap /\ l.fetchOptions # EmptyMap
                   /\ l.includeExtensions}
OptionedContexts ==
    {c \in Contexts : /\ c.uri = "/context" /\ c.credentials = "include"
                      /\ c.headers = [a |-> "2", b |-> "3"]
                      /\ c.fetchOptions = EmptyMap /\ c.http = EmptyMap}

Statuses == {200, 204, 300, 500}

StatusText(status) ==
    CASE status = 200 -> "OK"
      [] status = 204 -> "No Content"
      [] status = 300 -> "Multiple Choices"
      [] status = 500 -> "Internal Server Error"

BodyTexts == {"{\"data\":{\"a\":1}}", "{\"errors\":[\"e\"]}", "{\"foo\":1}",
              "null", "<html>", ""}

Responses == {Response(s, StatusText(s), b) : s \in Statuses, b \in BodyTexts}

-----------------------------------------------------------------------------
(* Specifications *)

InitWith(links, engines) ==
    /\ link \in links
    /\ AbortController \in BOOLEAN
    /\ engine \in engines
    /\ pc = [r \in Requests |-> "idle"]
    /\ sub = [r \in Requests |-> << >>]
    /\ fetchCalls = [r \in Requests |-> << >>]
    /\ aborted = [r \in Requests |-> FALSE]
    /\ cancelled = [r \in Requests |-> "no"]
    /\ response = [r \in Requests |-> << >>]
    /\ contextResponse = [r \in Requests |-> << >>]
    /\ settled = [r \in Requests |-> << >>]
    /\ log = [r \in Requests |-> << >>]

\* The life of requests made with default options through each link.
Init == InitWith(DefaultLinks, Engines)

Next ==
    \E r \in 1..NumRequests :
        \/ \E operation \in NamedOperations, context \in DefaultContexts :
               Subscribe(r, operation, context)
        \/ \E resp \in Responses : FetchResolve(r, resp)
        \/ \E err \in FetchRejections : FetchReject(r, err)
        \/ SetContext(r)
        \/ ReadText(r)
        \/ BodyRead(r)
        \/ \E err \in BodyRejections : BodyReject(r, err)
        \/ CheckResponse(r)
        \/ \E nextThrows, completeThrows \in BOOLEAN :
               Deliver(r, nextThrows, completeThrows)
        \/ Catch(r)
        \/ Cancel(r)

Spec == Init /\ [][Next]_vars

\* The requests each link builds, over all options, contexts and operations.
\* The one engine error thrown while a request is built, that of
\* JSON.stringify, is worded alike by both engines.
InitBuild == InitWith(Links, {"V8 of Node 20"})

NextBuild ==
    \E operation \in Operations, context \in Contexts :
        Subscribe(1, operation, context)

SpecBuild == InitBuild /\ [][NextBuild]_vars

\* Requests made through one link at the same time: the steps of their
\* promise chains and their cancellations interleave in any order.
ConcResponses ==
    {Response(200, StatusText(200), "{\"data\":{\"a\":1}}"),
     Response(500, StatusText(500), "{\"errors\":[\"e\"]}"),
     Response(200, StatusText(200), "<html>")}

\* Two subscriptions that differ in payload and in context: one without a
\* file and with an empty context, one with a file and a context that sets
\* its own options.
ConcSubscriptions ==
    {[operation |-> o, context |-> c] :
         o \in {n \in NamedOperations : n.variables = ScalarVariables},
         c \in DefaultContexts}
    \cup
    {[operation |-> o, context |-> c] :
         o \in {n \in NamedOperations : n.variables = OneFile},
         c \in OptionedContexts}

InitConc == InitWith(OptionedLinks, Engines)

NextConc ==
    \E r \in 1..NumConcurrent :
        \/ \E s \in ConcSubscriptions : Subscribe(r, s.operation, s.context)
        \/ \E resp \in ConcResponses : FetchResolve(r, resp)
        \/ \E err \in FetchRejections : FetchReject(r, err)
        \/ SetContext(r)
        \/ ReadText(r)
        \/ BodyRead(r)
        \/ \E err \in BodyRejections : BodyReject(r, err)
        \/ CheckResponse(r)
        \/ \E nextThrows, completeThrows \in BOOLEAN :
               Deliver(r, nextThrows, completeThrows)
        \/ Catch(r)
        \/ Cancel(r)

SpecConc == InitConc /\ [][NextConc]_vars

-----------------------------------------------------------------------------
(* Properties of the life of a request *)

\* The number of observer calls of a type made for a request.
Calls(r, type) == Cardinality({i \in DOMAIN log[r] : log[r][i].type = type})

\* The response a request's fetch resolved with.
ResponseOf(r) == response[r][1]

\* C1: a request the subscriber did not cancel ends with exactly one of
\* observer.next and observer.error called: never both and never neither,
\* whatever fetch and body reading did.
C1_ExactlyOneOutcome ==
    \A r \in Requests :
        (Done(r) /\ cancelled[r] = "no") => Calls(r, "next") + Calls(r, "error") = 1

\* C2: once the subscriber has cancelled a request whose fetch had not
\* settled, the fetch is aborted and the link calls neither observer.next
\* nor observer.error for it, with or without AbortController.
C2_CancelSilencesAndAborts ==
    \A r \in Requests :
        cancelled[r] = "fetching" => (aborted[r] /\ log[r] = << >>)

\* An error that names the status code in its message and carries the
\* response and its status code.
IsNetworkError(e, resp) ==
    /\ e.message \in {"Response not successful: Received status code "
                          \o ToString(resp.status),
                      ToString(resp.status) \o " (" \o resp.statusText \o ")"}
    /\ e.response = {resp}
    /\ e.statusCode = {resp.status}

\* C3: a response with status >= 300 ends the request with the NetworkError
\* outcome, whatever its body: also when the body is no JSON and when it is
\* a valid envelope.
C3_StatusGivesNetworkError ==
    \A r \in Requests :
        (pc[r] = "classified" /\ ResponseOf(r).status >= 300)
            => /\ Len(log[r]) = 1
               /\ log[r][1].type = "error"
               /\ IsNetworkError(log[r][1].error, ResponseOf(r))

\* An error that carries the response, its status code and the parsed body
\* and names the operation.
IsServerDataError(e, resp, result, operation) ==
    /\ e.message = "Server response was missing for query '"
                       \o String(operation.operationName) \o "'."
    /\ e.response = {resp}
    /\ e.statusCode = {resp.status}
    /\ e.result = {result}

LacksDataAndErrors(result) ==
    "data" \notin DOMAIN result.o /\ "errors" \notin DOMAIN result.o

\* C4: for a response with status < 300 whose body parses, a parsed body
\* with neither data nor errors ends the request with a ServerDataError
\* through observer.error and is never passed to observer.next; any other
\* parsed body is passed to observer.next as it is.
C4_EnvelopeCheck ==
    \A r \in Requests :
        (/\ pc[r] = "classified"
         /\ ResponseOf(r).status < 300
         /\ JSONparse(ResponseOf(r).bodyText) # {})
            => LET result == CHOOSE v \in JSONparse(ResponseOf(r).bodyText) : TRUE
               IN  IF LacksDataAndErrors(result)
                   THEN /\ Len(log[r]) = 1
                        /\ log[r][1].type = "error"
                        /\ IsServerDataError(log[r][1].error, ResponseOf(r), result,
                                             sub[r][1].operation)
                   ELSE /\ Len(log[r]) >= 1
                        /\ log[r][1] = NextEvent(result)

\* C5: a response whose body text is no JSON ends the request with a
\* ParseError through observer.error that carries the body text, the status
\* code and the response; no result is emitted.
C5_ParseErrorCarriesBody ==
    \A r \in Requests :
        (pc[r] = "classified" /\ JSONparse(ResponseOf(r).bodyText) = {})
            => /\ Len(log[r]) = 1
               /\ log[r][1].type = "error"
               /\ log[r][1].error.bodyText = {ResponseOf(r).bodyText}
               /\ log[r][1].error.statusCode = {ResponseOf(r).status}
               /\ log[r][1].error.response = {ResponseOf(r)}

\* C10: observer.complete is called only right after observer.next, never
\* after observer.error, and observer.error is never called after
\* observer.next or observer.complete, also when an observer callback throws.
C10_CompleteFollowsNext ==
    \A r \in Requests :
        \A i \in DOMAIN log[r] :
            /\ log[r][i].type = "complete" => (i > 1 /\ log[r][i - 1].type = "next")
            /\ log[r][i].type = "error" => i = 1

-----------------------------------------------------------------------------
(* Properties of the request built *)

\* The call of fetch a request made, and what it was subscribed with.
FetchCall(r)   == fetchCalls[r][1]
OperationOf(r) == sub[r][1].operation
ContextOf(r)   == sub[r][1].context

\* The files the extractor finds in an operation's variables.
FilesOf(operation) == extractFiles(operation.variables, "")

\* A header name in lower case, for the names of the model.
Lower(name) ==
    CASE name = "A" -> "a"
      [] name = "Content-Type" -> "content-type"
      [] OTHER -> name

\* C6: for a link obtained from createUploadLink, of either file, and an
\* operation with no file in its variables, the body passed to fetch is JSON
\* text with content-type: application/json, and no FormData is made.
C6_NoFilesGivesJson ==
    \A r \in Requests :
        (/\ Len(fetchCalls[r]) > 0
         /\ link.variant \in {createUploadLink(TRUE), createUploadLink(FALSE), "part000"}
         /\ Len(FilesOf(OperationOf(r))) = 0)
            => /\ FetchCall(r).options.body.kind = "json"
               /\ "content-type" \in DOMAIN FetchCall(r).options.headers
               /\ FetchCall(r).options.headers["content-type"] = "application/json"

\* The parts of a FormData body with a given name.
PartsNamed(body, name) == SelectSeq(body.parts, LAMBDA p : p.name = name)

\* C7: for an operation with n >= 1 extracted files the body is multipart
\* with a field operations, a field map whose keys are "0".."n-1", each
\* mapped to the list holding that file's path, and exactly one file part
\* per index i, named i and carrying the i-th file.
C7_MultipartMap ==
    \A r \in Requests :
        (Len(fetchCalls[r]) > 0 /\ Len(FilesOf(OperationOf(r))) >= 1)
            => LET files == FilesOf(OperationOf(r))
                   n == Len(files)
                   body == FetchCall(r).options.body
                   maps == PartsNamed(body, "map")
               IN  /\ body.kind = "formdata"
                   /\ Len(PartsNamed(body, "operations")) = 1
                   /\ Len(maps) = 1
                   /\ DOMAIN maps[1].value = {ToString(i - 1) : i \in 1..n}
                   /\ \A i \in 1..n :
                          maps[1].value[ToString(i - 1)]
                              \in {<< files[i].path >>,
                                   << JoinPath("variables", files[i].path) >>}
                   /\ Len(SelectSeq(body.parts, LAMBDA p : p.kind = "file")) = n
                   /\ \A i \in 1..n :
                          PartsNamed(body, ToString(i - 1))
                              = << FilePart(ToString(i - 1), files[i].file) >>

\* C8: when the body is multipart and neither the link's nor the context's
\* headers name a content-type, the headers passed to fetch hold none.
C8_NoMultipartContentType ==
    \A r \in Requests :
        (/\ Len(fetchCalls[r]) > 0
         /\ FetchCall(r).options.body.kind = "formdata"
         /\ \A k \in DOMAIN link.headers \cup DOMAIN ContextOf(r).headers :
                Lower(k) # "content-type")
            => \A k \in DOMAIN FetchCall(r).options.headers : Lower(k) # "content-type"

\* C9: the headers passed to fetch hold every link-level and context header,
\* the context's value where both name one, names being compared without
\* regard to case: no two names of the effective headers differ only in case.
C9_HeaderMerge ==
    \A r \in Requests :
        Len(fetchCalls[r]) > 0
            => LET effective == FetchCall(r).options.headers
                   context == ContextOf(r).headers
               IN  /\ \A k \in DOMAIN context :
                          \E e \in DOMAIN effective :
                              Lower(e) = Lower(k) /\ effective[e] = context[k]
                   /\ \A k \in DOMAIN link.headers :
                          (\A c \in DOMAIN context : Lower(c) # Lower(k))
                              => \E e \in DOMAIN effective :
                                     Lower(e) = Lower(k) /\ effective[e] = link.headers[k]
                   /\ \A e1, e2 \in DOMAIN effective :
                          Lower(e1) = Lower(e2) => e1 = e2

-----------------------------------------------------------------------------
(* Errors and their delivery *)

\* C11: an error is withheld from observer.error only for a request the
\* subscriber cancelled: a request never cancelled that ended without a
\* result (fetch rejected, body reading rejected, or the response was
\* classified an error) has had observer.error called, also when the
\* rejection's name is 'AbortError'.
C11_OnlyCancelSuppresses ==
    \A r \in Requests :
        (Done(r) /\ cancelled[r] = "no" /\ Calls(r, "next") = 0)
            => Calls(r, "error") >= 1

\* The error JSON.stringify threw, bare or wrapped in the payload error.
IsSerializationError(e) ==
    e = StringifyError \/ e.parseError = {StringifyError.message}

\* Variables that hold a value JSON cannot represent.
HoldsBigInt(variables) ==
    \E i \in 1..Len(variables) : variables[i].leaf = BigInt(variables[i].leaf.v)

\* C12: when JSON.stringify throws on the operation's variables the request
\* fails with the serialization error and fetch is never called for it.
C12_UnserializableNeverFetched ==
    \A r \in Requests :
        (sub[r] # << >> /\ HoldsBigInt(OperationOf(r).variables))
            => /\ fetchCalls[r] = << >>
               /\ pc[r] = "threw"
               /\ Len(log[r]) = 1
               /\ log[r][1].type = "error"
               /\ IsSerializationError(log[r][1].error)

C12_Witness ==
    \E r \in Requests :
        /\ sub[r] # << >>
        /\ HoldsBigInt(OperationOf(r).variables)
        /\ pc[r] = "threw"
        /\ log[r] = << ErrorEvent(PayloadError) >>

-----------------------------------------------------------------------------
(* The options passed to fetch *)

\* C13: whatever the link-level and the context fetchOptions hold, a method
\* field included, the method passed to fetch is "POST".
C13_MethodIsPost ==
    \A r \in Requests :
        Len(fetchCalls[r]) > 0 => FetchCall(r).options.method = "POST"

\* The fields of the operation payload a request transmits: the keys of the
\* JSON body or of the operations field, else the names of the FormData
\* fields other than the files and their map.
PayloadFields(r) ==
    LET body == FetchCall(r).options.body
        operations == PartsNamed(body, "operations")
    IN  IF body.kind = "json" THEN DOMAIN body.json
        ELSE IF Len(operations) > 0 THEN DOMAIN operations[1].value
        ELSE {body.parts[i].name : i \in {j \in DOMAIN body.parts :
                  body.parts[j].kind # "file" /\ body.parts[j].name # "files"}}

\* includeExtensions, as given to the link or in the context's http options.
ExtensionsWanted(r) ==
    \/ link.includeExtensions
    \/ /\ "includeExtensions" \in DOMAIN ContextOf(r).http
       /\ ContextOf(r).http.includeExtensions

\* C14: the payload holds operationName only for a non-empty operationName,
\* variables only for non-empty variables, and extensions only when the
\* operation has extensions and includeExtensions is true.
C14_OptionalPayloadFields ==
    \A r \in Requests :
        Len(fetchCalls[r]) > 0
            => /\ "operationName" \in PayloadFields(r)
                      => Truthy(OperationOf(r).operationName)
               /\ "variables" \in PayloadFields(r)
                      => Len(OperationOf(r).variables) > 0
               /\ "extensions" \in PayloadFields(r)
                      => (OperationOf(r).extensions # Undefined /\ ExtensionsWanted(r))

\* The URL the options name: the context's, else the link's, else the default.
ExpectedUri(r) ==
    IF ContextOf(r).uri # Undefined THEN ContextOf(r).uri
    ELSE IF link.uri # Undefined THEN link.uri
    ELSE "/graphql"

\* The credentials the options name, none when neither names any.
ExpectedCredentials(r) ==
    IF ContextOf(r).credentials # Undefined THEN {ContextOf(r).credentials}
    ELSE IF link.credentials # Undefined THEN {link.credentials}
    ELSE {}

\* The credentials field of the options passed to fetch, none when absent.
CredentialsPassed(r) ==
    IF "credentials" \in DOMAIN FetchCall(r).options
    THEN {FetchCall(r).options.credentials}
    ELSE {}

\* C15: the URL passed to fetch is the context uri, else the
\* link-level uri, else "/graphql"; the credentials passed are the context's,
\* else the link's, and the field is absent when neither supplies one.
C15_UriAndCredentials ==
    \A r \in Requests :
        Len(fetchCalls[r]) > 0
            => /\ FetchCall(r).uri = ExpectedUri(r)
               /\ CredentialsPassed(r) = ExpectedCredentials(r)

-----------------------------------------------------------------------------
(* The context and the calls of fetch *)

\* C16: when fetch has resolved with a response, setContext({ response })
\* has been called with that response, once and before any observer call
\* for the request, also when the response is classified an error.
C16_ContextBeforeObserver ==
    \A r \in Requests :
        /\ pc[r] = "fetchResolved" => log[r] = << >>
        /\ (response[r] # << >> /\ pc[r] # "fetchResolved")
               => contextResponse[r]
                      = << [response |-> ResponseOf(r), observerCalls |-> 0] >>

C16_Witness ==
    \E r \in Requests :
        /\ pc[r] = "classified"
        /\ ~ResponseOf(r).ok
        /\ Calls(r, "error") = 1
        /\ contextResponse[r] = << [response |-> ResponseOf(r), observerCalls |-> 0] >>

\* C17: fetch is called at most once for a subscription, whatever the
\* outcome, and observer.error is called at most once for it.
C17_NoRetry ==
    \A r \in Requests :
        Len(fetchCalls[r]) <= 1 /\ Calls(r, "error") <= 1

C17_Witness ==
    \E r \in Requests :
        /\ pc[r] = "fetchRejected"
        /\ Len(fetchCalls[r]) = 1
        /\ log[r] = << ErrorEvent(NetworkFailure) >>

-----------------------------------------------------------------------------
(* Requests in flight at the same time *)

\* The fetch calls the link makes for an operation and a context.
OwnFetchCalls(r) ==
    IF sub[r] = << >> THEN << >>
    ELSE LET built == BuildRequest(link, OperationOf(r), ContextOf(r), AbortController)
         IN  IF built.threw THEN << >>
             ELSE << [uri |-> built.uri, options |-> built.options] >>

\* What a request's chain ends with on its response, given its own
\* operation: the result passed on, or the error thrown.
OwnClassified(r) ==
    IF link.variant = "json"
    THEN IF ~ResponseOf(r).ok
         THEN Rejected(PlainError("Error",
                  ToString(ResponseOf(r).status) \o " ("
                      \o ResponseOf(r).statusText \o ")"))
         ELSE responseJson(ResponseOf(r), engine)
    ELSE parseAndCheckResponse(OperationOf(r), ResponseOf(r), engine)

\* The observer calls a request can have received at its position, given
\* its own operation, context and response.
OwnLogs(r) ==
    CASE pc[r] \in {"idle", "fetching", "fetchResolved", "fetchRejecting",
                    "contextSet", "reading", "readRejecting", "checking",
                    "delivering"} ->
            {<< >>}
      [] pc[r] = "threw" ->
            {<< ErrorEvent(BuildRequest(link, OperationOf(r), ContextOf(r),
                                        AbortController).error) >>}
      [] pc[r] = "fetchRejected" ->
            {catch(link.variant, err) : err \in FetchRejections}
      [] pc[r] = "readRejected" ->
            {catch(link.variant, err) : err \in BodyRejections}
      [] pc[r] = "rejecting" ->
            IF OwnClassified(r).ok
            THEN {<< NextEvent(OwnClassified(r).value) >>,
                  << NextEvent(OwnClassified(r).value), CompleteEvent >>}
            ELSE {<< >>}
      [] pc[r] = "classified" ->
            IF OwnClassified(r).ok
            THEN {<< NextEvent(OwnClassified(r).value), CompleteEvent >>,
                  << NextEvent(OwnClassified(r).value) >>
                      \o catch(link.variant, ObserverError),
                  << NextEvent(OwnClassified(r).value), CompleteEvent >>
                      \o catch(link.variant, ObserverError)}
            ELSE {catch(link.variant, OwnClassified(r).error)}

\* What a request's fetch was called with, its signal and what its observer
\* received follow from its own operation, context and response.
OwnOutcome(r) ==
    /\ fetchCalls[r] = OwnFetchCalls(r)
    /\ log[r] \in OwnLogs(r)
    /\ aborted[r] = (/\ link.variant # "json" /\ AbortController
                     /\ pc[r] \notin {"idle", "threw"}
                     /\ ~Open(r))
    /\ contextResponse[r] =
           IF response[r] = << >> \/ pc[r] = "fetchResolved" THEN << >>
           ELSE << [response |-> ResponseOf(r), observerCalls |-> 0] >>

\* A step of request r: its chain moves on or its subscriber cancels it.
Acts(r) == pc'[r] # pc[r] \/ cancelled'[r] # cancelled[r]

\* A step leaves the link's options, and all of a request that did not
\* take it, as they were.
Isolated ==
    /\ link' = link
    /\ \A r \in Requests :
           ~Acts(r) => /\ sub'[r] = sub[r]
                       /\ fetchCalls'[r] = fetchCalls[r]
                       /\ aborted'[r] = aborted[r]
                       /\ response'[r] = response[r]
                       /\ contextResponse'[r] = contextResponse[r]
                       /\ settled'[r] = settled[r]
                       /\ log'[r] = log[r]

\* C18: of two requests on one link whose steps interleave in any order,
\* each one's fetch call (body, headers, signal) and observer calls follow
\* from its own operation, context and response; a step of one leaves the
\* link's options and the other request untouched, so that cancelling one
\* neither aborts nor silences the other; and the same operation and
\* context give the same fetch call twice.
C18_RequestsIndependent ==
    /\ [](\A r \in Requests : OwnOutcome(r))
    /\ [](\A r, q \in Requests :
              (sub[r] # << >> /\ sub[r] = sub[q]) => fetchCalls[r] = fetchCalls[q])
    /\ [][Isolated]_vars

C18_Witness ==
    /\ cancelled[1] = "fetching" /\ aborted[1] /\ pc[1] = "fetching"
    /\ cancelled[2] = "no"
    /\ pc[2] = "classified" /\ Calls(2, "next") = 1
    /\ OperationOf(1).variables # OperationOf(2).variables
    /\ FetchCall(1).options.body # FetchCall(2).options.body

=============================================================================
